---- MODULE Spec2Model ----
(***************************************************************************)
(* Model of src/core/trainers.py: the checkpoint/resume state machine and  *)
(* the epoch loop of Trainer / CDTrainer.                                  *)
(*                                                                         *)
(* Floats are modelled by integers that keep their order (scores: 0 is     *)
(* 0.0).  Tensors are records [shape, val].  A Python dict is a function   *)
(* whose DOMAIN is its key set, so dict.get and len are what they are in   *)
(* the source.  Files live in three checkpoint slots (latest, best and the *)
(* per-epoch history paths); the file at the user-supplied resume path is  *)
(* an input of _resume_from_checkpoint.                                    *)
(***************************************************************************)
EXTENDS Integers, FiniteSets, Sequences, TLC

\* ------------------------------------------------------------------ bounds
\* context.num_epochs of the modelled runs
NumEpochs == 3
\* validation scores range over 0..MaxScore
MaxScore == 1
\* context.track_intvl ranges over 1..MaxTrackIntvl
MaxTrackIntvl == 2
\* context.step of the step learning-rate policy
LrStep == 2

Scores == 0..MaxScore

\* ----------------------------------------------------------- Python values
Max(a, b) == IF a >= b THEN a ELSE b

\* dict.get(key, default)
Get(d, key, default) == IF key \in DOMAIN d THEN d[key] ELSE default

\* len(dict)
Len_(d) == Cardinality(DOMAIN d)

\* the empty dict {}
EmptyDict == [k \in {} |-> 0]

\* os.path.isfile(path) is False
NoFile == [isfile |-> FALSE]

\* the value of the 'max_acc' key: a (score, epoch) tuple or a bare number
Pair(score, epoch) == [kind |-> "tuple", val |-> <<score, epoch>>]
Bare(x) == [kind |-> "number", val |-> x]

\* isinstance(v, (float, int))
IsNumber(v) == v.kind = "number"

Tensor(shape, val) == [shape |-> shape, val |-> val]

\* model_factory(...).state_dict() of the live architecture: two parameters
\* of shape 1, freshly initialised
FreshModel == [w1 |-> Tensor(1, "fresh"), w2 |-> Tensor(1, "fresh")]

\* ------------------------------------------------------------------ state
VARIABLES
    ctx,            \* MappingProxyType(vars(context)): the run settings
    pc,             \* position of the control thread
    run,            \* which Trainer object is alive: the first (1) or the resumed one (2)
    start_epoch,    \* self.start_epoch
    init_max_acc_and_epoch, \* self._init_max_acc_and_epoch
    model,          \* self.model.state_dict()
    optimizer,      \* self.optimizer.state_dict(), without the lr
    param_lr,       \* param_group['lr'] of every group of the optimizer
    metrics_clean,  \* every metric accumulator was reset and not updated since
    epoch,          \* train(): the loop variable
    max_acc,        \* train(): local max_acc
    best_epoch,     \* train(): local best_epoch
    checkpoint,     \* _resume_from_checkpoint(): the record read, while in scope
    resume_ret,     \* what _resume_from_checkpoint returned, and by which branch
    latest,         \* file at CKP_LATEST
    best,           \* file at CKP_BEST
    history,        \* files at CKP_COUNTED.format(e=...)
    scores,         \* the validation score the data yield at each epoch
    log,            \* per run, the _save_checkpoint calls made and the files each wrote
    val_calls,      \* validate_epoch invocations made by this Trainer
    error,          \* the exception that ended run(), "none" while there is none
    trace,          \* the steps of train() taken in the current epoch, in order
    snap            \* copy of the checkpoint directory taken at an epoch boundary

vars == <<ctx, pc, run, start_epoch, init_max_acc_and_epoch, model, optimizer,
          param_lr, metrics_clean, epoch, max_acc, best_epoch, checkpoint,
          resume_ret, latest, best, history, scores, log,
          val_calls, error, trace, snap>>

\* self.mode == 0
is_training == ctx.cmd = "train"

\* self.load_checkpoint = (len(self.checkpoint) > 0)
load_checkpoint == ctx.resume # ""

\* mutant: the stored epoch is taken for the checkpoint's own
ckp_epoch_Stored(start) == start

\* Trainer.ckp_epoch for a given self.start_epoch
ckp_epoch(start) == Max(start - 1, 0)

\* ------------------------------------------------- _resume_from_checkpoint
\* lines 148-149: the entries of the checkpoint the live model can take
update_dict(state_dict, ckp_dict) ==
    [k \in {n \in DOMAIN ckp_dict :
                n \in DOMAIN state_dict /\ state_dict[n].shape = ckp_dict[n].shape}
        |-> ckp_dict[k]]

\* mutant: a checkpoint with entries to spare passes for a match
IsMismatched_IgnoresExtra(num_to_update, len_state_dict, len_ckp_dict) ==
    num_to_update < len_state_dict

\* line 152: the test that selects the mismatch branch
IsMismatched(num_to_update, len_state_dict, len_ckp_dict) ==
    (num_to_update < len_state_dict) \/ (len_state_dict < len_ckp_dict)

\* mutant: the mode test is inverted
EvalRejects_Inverted(num_to_update, len_state_dict) ==
    is_training /\ (num_to_update < len_state_dict)

\* line 153: evaluation refuses a checkpoint that leaves a live parameter out
EvalRejects(num_to_update, len_state_dict) ==
    ~is_training /\ (num_to_update < len_state_dict)

\* mutant: the empty update is not refused
NothingToLoad_Missed(num_to_update) == num_to_update < 0

\* line 157: no parameter is to be loaded
NothingToLoad(num_to_update) == num_to_update = 0

\* mutant: anew is honoured in evaluation mode too
RestoresProgress_AnewOnly == ~ctx.anew

\* line 162: the progress counters are restored
RestoresProgress == (~ctx.anew) \/ ~is_training

\* mutant: the stored best score is not read back
RestoredMaxAcc_Forgets(ckp, new_start) == <<0, ckp_epoch(new_start)>>

\* lines 164-169: the (max_acc, epoch) tuple a record yields, given the
\* start_epoch just restored from it
RestoredMaxAcc(ckp, new_start) ==
    LET max_acc_and_epoch == Get(ckp, "max_acc", Pair(0, ckp_epoch(new_start)))
    IN  IF IsNumber(max_acc_and_epoch)
        THEN <<max_acc_and_epoch.val, ckp_epoch(new_start)>>
        ELSE max_acc_and_epoch.val

\* mutant: the update set is built and then not merged into the live mapping
LoadStateDict_Unmerged(state_dict, upd) == state_dict

\* lines 174-175: state_dict.update(update_dict); load_state_dict(state_dict)
LoadStateDict(state_dict, upd) ==
    [k \in DOMAIN state_dict |-> IF k \in DOMAIN upd THEN upd[k] ELSE state_dict[k]]

\* The whole method on the Trainer `self` = [start_epoch, init, optimizer,
\* model] with `file` at self.checkpoint: the fields afterwards, `ret`
\* ("True", "False", or "raise" for the KeyError of checkpoint['optimizer'])
\* and the branch of line 152 taken ("mismatch", or "match" for the elif/else).
_resume_from_checkpoint(self, file) ==
    IF file = NoFile
    THEN [self EXCEPT !.ret = "False", !.branch = "nofile"]
    ELSE
    LET state_dict == self.model
        ckp_dict == Get(file, "state_dict", file)
        upd == update_dict(state_dict, ckp_dict)
        num_to_update == Len_(upd)
        mismatched == IsMismatched(num_to_update, Len_(state_dict), Len_(ckp_dict))
        loaded == [self EXCEPT !.ret = "True",
                               !.branch = IF mismatched THEN "mismatch" ELSE "match",
                               !.model = LoadStateDict(state_dict, upd)]
    IN  IF mismatched
        THEN IF EvalRejects(num_to_update, Len_(state_dict))
             THEN [self EXCEPT !.ret = "False", !.branch = "mismatch"]
             ELSE IF NothingToLoad(num_to_update)
                  THEN [self EXCEPT !.ret = "False", !.branch = "mismatch"]
                  ELSE loaded
        ELSE IF RestoresProgress
             THEN LET new_start == Get(file, "epoch", 0)
                      restored == [loaded EXCEPT
                                     !.start_epoch = new_start,
                                     !.init = RestoredMaxAcc(file, new_start)]
                  IN  IF ctx.load_optim /\ is_training
                      THEN IF "optimizer" \in DOMAIN file
                           THEN [restored EXCEPT !.optimizer = file.optimizer]
                           ELSE [restored EXCEPT !.ret = "raise",
                                                 !.model = self.model]
                      ELSE restored
             ELSE loaded

\* the Trainer fields _resume_from_checkpoint reads and writes
Self ==
    [start_epoch |-> start_epoch, init |-> init_max_acc_and_epoch,
     optimizer |-> optimizer, model |-> model, ret |-> "none", branch |-> "none"]

\* no call of _resume_from_checkpoint has returned
NoResume == [ret |-> "none", branch |-> "none"]

\* --------------------------------------------------- _adjust_learning_rate
RECURSIVE Pow2(_)
Pow2(n) == IF n = 0 THEN 1 ELSE 2 * Pow2(n - 1)

\* mutant: the exponent is rounded up instead of down
Halvings_RoundedUp(e) == (e + ctx.step - 1) \div ctx.step

\* line 124: the exponent epoch // self.ctx['step']
Halvings(e) == e \div ctx.step

\* lines 123-130.  A rate is self.lr * (num/den) ** (pow/10), kept exact:
\* step:  0.5 ** (epoch // step)      = (1 / 2^(epoch // step)) ** 1.0
\* poly:  (1 - epoch/num_epochs)**1.1 = ((num_epochs - epoch) / num_epochs) ** 1.1
\* const: self.lr.  Any other mode raises ValueError.
LearningRate(e) ==
    IF ctx.lr_mode = "step"
    THEN [num |-> 1, den |-> Pow2(Halvings(e)), pow |-> 10]
    ELSE IF ctx.lr_mode = "poly"
    THEN [num |-> ctx.num_epochs - e, den |-> ctx.num_epochs, pow |-> 11]
    ELSE IF ctx.lr_mode = "const"
    THEN [num |-> 1, den |-> 1, pow |-> 10]
    ELSE [num |-> 0, den |-> 0, pow |-> 0]

\* mutant: a mode that is not known is not told from const
UnknownLrMode_Accepted == FALSE

\* line 130: raise ValueError('unknown lr mode ...')
UnknownLrMode == ctx.lr_mode \notin {"step", "poly", "const"}

\* the rate of a freshly built optimizer: self.lr itself
BaseLr == [num |-> 1, den |-> 1, pow |-> 10]

\* -------------------------------------------------------- _save_checkpoint
\* lines 183-188: the record written
State(state_dict, optim_state, max_acc_and_epoch, stored_epoch) ==
    [epoch |-> stored_epoch, state_dict |-> state_dict,
     optimizer |-> optim_state, max_acc |-> Pair(max_acc_and_epoch[1], max_acc_and_epoch[2])]

\* mutant: the history path does not name the epoch
HistoryPath_Fixed(stored_epoch) == 0

\* line 190: the history path is CKP_COUNTED.format(e=epoch)
HistoryPath(stored_epoch) == stored_epoch

\* mutant: the interval is tested on the epoch just run
TracksHistory_LoopEpoch(stored_epoch) == (stored_epoch - 1) % ctx.track_intvl = 0

\* line 191: the history file is written for this stored epoch
TracksHistory(stored_epoch) == stored_epoch % ctx.track_intvl = 0

\* line 199: BEST is a copy of the LATEST file
CopyFile(src, dst) == src

\* The whole method on the slots `fs` = [latest, best, history]; `events`
\* lists the files it wrote, in order.
_save_checkpoint(fs, state_dict, optim_state, max_acc_and_epoch, stored_epoch, is_best) ==
    LET state == State(state_dict, optim_state, max_acc_and_epoch, stored_epoch)
        history_path == HistoryPath(stored_epoch)
        fs0 == [latest |-> fs.latest, best |-> fs.best, history |-> fs.history,
                events |-> <<>>]
        fs1 == IF TracksHistory(stored_epoch)
               THEN [fs0 EXCEPT !.history = [p \in DOMAIN fs.history \cup {history_path}
                                               |-> IF p = history_path THEN state
                                                   ELSE fs.history[p]],
                                !.events = Append(@, [slot |-> "history",
                                                      path |-> history_path])]
               ELSE fs0
        fs2 == [fs1 EXCEPT !.latest = state,
                           !.events = Append(@, [slot |-> "latest", path |-> 0])]
    IN  IF is_best
        THEN [fs2 EXCEPT !.best = CopyFile(fs2.latest, fs2.best),
                         !.events = Append(@, [slot |-> "best", path |-> 0])]
        ELSE fs2

\* ------------------------------------------------------------ Trainer.train
\* mutant: a tie counts as an improvement
IsBest_OrEqual(acc, running_max) == acc >= running_max

\* mutant: the comparison is the wrong way round, as for a loss
IsBest_Reversed(acc, running_max) == acc < running_max

\* line 101: is_best = acc > max_acc
IsBest(acc, running_max) == acc > running_max

\* mutant: the checkpoint saves the epoch just run
NextEpoch_Same(e) == e

\* line 112: the checkpoint saves next epoch
NextEpoch(e) == e + 1

\* line 111: self.optimizer.state_dict() if self.ctx['save_optim'] else {}
OptimState == IF ctx.save_optim THEN optimizer ELSE "{}"

\* ------------------------------------------------------------------ inputs
\* parameter mappings a checkpoint file can hold: w1 and w2 are the live
\* names (shape 1 matches, shape 2 does not), w3 is a name the model lacks
ParamMaps ==
    { [k \in DOMAIN d |-> Tensor(d[k], "ext")] :
        d \in { f \in UNION { [S -> {1, 2}] : S \in SUBSET {"w1", "w2", "w3"} } :
                  /\ ("w2" \in DOMAIN f => f["w2"] = 1)
                  /\ ("w3" \in DOMAIN f => f["w3"] = 1) } }

\* full match, strict superset, partial overlap, wrong shape, no overlap
WrappedParamMaps ==
    { m \in ParamMaps :
        DOMAIN m \in {{"w1", "w2"}, {"w1", "w2", "w3"}, {"w1"}, {"w3"}} }

Absent == [has |-> FALSE]
Present(v) == [has |-> TRUE, val |-> v]

\* a record with a 'state_dict' key and any of the other keys
Record(sd, e, m, o) ==
    [k \in {"state_dict"} \cup (IF e.has THEN {"epoch"} ELSE {})
                          \cup (IF m.has THEN {"max_acc"} ELSE {})
                          \cup (IF o.has THEN {"optimizer"} ELSE {})
        |-> CASE k = "state_dict" -> sd
              [] k = "epoch" -> e.val
              [] k = "max_acc" -> m.val
              [] k = "optimizer" -> o.val]

\* what can be found at a user-supplied resume path: nothing, a legacy file
\* (the bare parameter mapping) or a record
ExtFiles ==
    {NoFile} \cup ParamMaps \cup
    { Record(sd, e, m, o) :
        sd \in WrappedParamMaps,
        e \in {Absent, Present(0), Present(NumEpochs - 1), Present(NumEpochs)},
        m \in {Absent, Present(Bare(MaxScore)), Present(Pair(MaxScore, 0))},
        o \in {Absent, Present("ext")} }

\* the file at self.checkpoint
ResumeInputs == IF ctx.resume = "latest" THEN {latest} ELSE ExtFiles

\* the settings of a training run and of an evaluation run (which never
\* reads the keys of the loop and of _save_checkpoint)
TrainConfigs ==
    [cmd : {"train"}, resume : {"", "ext"}, num_epochs : {NumEpochs},
     track_intvl : 1..MaxTrackIntvl, lr_mode : {"step", "poly", "const", "cosine"},
     step : {LrStep}, anew : BOOLEAN, load_optim : BOOLEAN, save_optim : BOOLEAN,
     metrics : {0, 1}]

EvalConfigs ==
    [cmd : {"val"}, resume : {"", "ext"}, num_epochs : {NumEpochs},
     track_intvl : {1}, lr_mode : {"const"},
     step : {LrStep}, anew : BOOLEAN, load_optim : BOOLEAN, save_optim : {FALSE},
     metrics : {0, 1}]

NoSnap == [taken |-> FALSE]

\* ---------------------------------------------------------------- __init__
\* lines 19-57: the fields of a new Trainer
Construct(settings) ==
    /\ ctx' = settings
    /\ pc' = "start"
    /\ start_epoch' = 0
    /\ init_max_acc_and_epoch' = <<0, 0>>
    /\ model' = FreshModel
    /\ optimizer' = IF settings.cmd = "train" THEN "fresh" ELSE "none"
    /\ param_lr' = BaseLr
    /\ metrics_clean' = TRUE
    /\ epoch' = 0
    /\ max_acc' = 0
    /\ best_epoch' = 0
    /\ checkpoint' = NoFile
    /\ resume_ret' = NoResume
    /\ val_calls' = 0
    /\ error' = "none"
    /\ trace' = <<>>

Init ==
    /\ ctx \in TrainConfigs \cup EvalConfigs
    /\ pc = "start"
    /\ run = 1
    /\ start_epoch = 0
    /\ init_max_acc_and_epoch = <<0, 0>>
    /\ model = FreshModel
    /\ optimizer = IF ctx.cmd = "train" THEN "fresh" ELSE "none"
    /\ param_lr = BaseLr
    /\ metrics_clean = TRUE
    /\ epoch = 0
    /\ max_acc = 0
    /\ best_epoch = 0
    /\ checkpoint = NoFile
    /\ resume_ret = NoResume
    /\ latest = NoFile
    /\ best = NoFile
    /\ history = EmptyDict
    /\ scores = EmptyDict
    /\ log = [r \in {1, 2} |-> <<>>]
    /\ val_calls = 0
    /\ error = "none"
    /\ trace = <<>>
    /\ snap = NoSnap

\* ------------------------------------------------------------------ actions
\* train(), lines 80-81: the resume a training run starts with
\* mutant: train() gives up when the resume reports failure
TrainContinues_OnSuccess(ret) == ret = "True"

\* train(), lines 80-81: the value _resume_from_checkpoint returns is dropped,
\* only an exception raised in it leaves train()
TrainContinues(ret) == ret # "raise"

TrainResume ==
    /\ pc = "start" /\ is_training /\ load_checkpoint
    /\ \E file \in ResumeInputs :
         LET r == _resume_from_checkpoint(Self, file)
         IN  /\ start_epoch' = r.start_epoch
             /\ init_max_acc_and_epoch' = r.init
             /\ optimizer' = r.optimizer
             /\ model' = r.model
             /\ resume_ret' = [ret |-> r.ret, branch |-> r.branch]
             /\ checkpoint' = file
             /\ pc' = IF TrainContinues(r.ret) THEN "resumed" ELSE "failed"
             /\ error' = IF r.ret = "raise" THEN "KeyError" ELSE error
    /\ UNCHANGED <<ctx, run, param_lr, metrics_clean, epoch, max_acc, best_epoch,
                   latest, best, history, scores, log, val_calls, snap, trace>>

\* train(), lines 83-85: the locals of the loop; the value _resume_from_checkpoint
\* returned was dropped and its locals are gone (that it found no file at
\* the path stays on record, to follow the run that comes of it)
LoopEnter ==
    /\ is_training
    /\ \/ pc = "resumed"
       \/ pc = "start" /\ ~load_checkpoint
    /\ max_acc' = init_max_acc_and_epoch[1]
    /\ best_epoch' = init_max_acc_and_epoch[2]
    /\ epoch' = start_epoch
    /\ checkpoint' = NoFile
    /\ resume_ret' = IF resume_ret.branch = "nofile" THEN resume_ret ELSE NoResume
    /\ pc' = "loop"
    /\ UNCHANGED <<ctx, run, start_epoch, init_max_acc_and_epoch, model, optimizer,
                   param_lr, metrics_clean, latest, best, history, scores, log,
                   val_calls, snap, error, trace>>

\* mutant: the rate is computed and returned, the optimizer keeps the old one
SetParamGroups_Skipped(lr) == param_lr

\* _adjust_learning_rate, lines 132-133: every param group of the optimizer
\* gets the rate (param_lr is the rate all the groups share)
SetParamGroups(lr) == lr

\* train(), line 86 with _adjust_learning_rate, lines 122-134
AdjustLearningRate ==
    /\ pc = "loop" /\ epoch < ctx.num_epochs
    /\ IF UnknownLrMode
       THEN /\ pc' = "failed"
            /\ error' = "ValueError"
            /\ param_lr' = param_lr
            /\ trace' = <<>>
       ELSE /\ pc' = "train"
            /\ error' = error
            /\ param_lr' = SetParamGroups(LearningRate(epoch))
            /\ trace' = <<"adjust_learning_rate">>
    /\ UNCHANGED <<ctx, run, start_epoch, init_max_acc_and_epoch, model, optimizer,
                   metrics_clean, epoch, max_acc, best_epoch, checkpoint, resume_ret,
                   latest, best, history, scores, log, val_calls, snap>>

\* train(), line 85: range(self.start_epoch, self.num_epochs) is exhausted
LoopExit ==
    /\ pc = "loop" /\ epoch >= ctx.num_epochs
    /\ pc' = "done"
    /\ UNCHANGED <<ctx, run, start_epoch, init_max_acc_and_epoch, model, optimizer,
                   param_lr, metrics_clean, epoch, max_acc, best_epoch, checkpoint,
                   resume_ret, latest, best, history, scores, log,
                   val_calls, snap, error, trace>>

\* the parameters after gradient steps
Trained(state_dict) == [k \in DOMAIN state_dict |-> Tensor(state_dict[k].shape, "trained")]

\* train(), line 91 with CDTrainer.train_epoch, lines 232-259
TrainEpoch ==
    /\ pc = "train"
    /\ model' = Trained(model)
    /\ optimizer' = "stepped"
    /\ trace' = Append(trace, "train_epoch")
    /\ pc' = "reset"
    /\ UNCHANGED <<ctx, run, start_epoch, init_max_acc_and_epoch, param_lr,
                   metrics_clean, epoch, max_acc, best_epoch, checkpoint, resume_ret,
                   latest, best, history, scores, log, val_calls, snap, error>>

\* mutant: the exception of train_epoch is caught and the epoch goes on
TrainEpochFails_Swallowed ==
    /\ pc = "train"
    /\ \E stepped \in BOOLEAN :
         /\ model' = IF stepped THEN Trained(model) ELSE model
         /\ optimizer' = IF stepped THEN "stepped" ELSE optimizer
    /\ error' = "train_epoch"
    /\ trace' = Append(trace, "train_epoch")
    /\ pc' = "reset"
    /\ UNCHANGED <<ctx, run, start_epoch, init_max_acc_and_epoch, param_lr,
                   metrics_clean, epoch, max_acc, best_epoch, checkpoint, resume_ret,
                   latest, best, history, scores, log, val_calls, snap>>

\* train_epoch raises (data loading, the forward or backward pass), before
\* or after some optimizer steps
TrainEpochFails ==
    /\ pc = "train"
    /\ \E stepped \in BOOLEAN :
         /\ model' = IF stepped THEN Trained(model) ELSE model
         /\ optimizer' = IF stepped THEN "stepped" ELSE optimizer
    /\ error' = "train_epoch"
    /\ trace' = Append(trace, "train_epoch")
    /\ pc' = "failed"
    /\ UNCHANGED <<ctx, run, start_epoch, init_max_acc_and_epoch, param_lr,
                   metrics_clean, epoch, max_acc, best_epoch, checkpoint, resume_ret,
                   latest, best, history, scores, log, val_calls, snap>>

\* train(), lines 94-95
ResetMetrics ==
    /\ pc = "reset"
    /\ metrics_clean' = TRUE
    /\ trace' = Append(trace, "reset")
    /\ pc' = "validate"
    /\ UNCHANGED <<ctx, run, start_epoch, init_max_acc_and_epoch, model, optimizer,
                   param_lr, epoch, max_acc, best_epoch, checkpoint, resume_ret,
                   latest, best, history, scores, log, val_calls, snap, error>>

\* CDTrainer.validate_epoch, line 303: with no metric the expression reads
\* self._init_max_acc, an attribute no line sets
ValidateRaises == ctx.metrics = 0

\* what a call of validate_epoch can raise: an exception of the data or the
\* model (lines 261-301) and, with no metric, the AttributeError of line 303
ValidateErrors ==
    IF ValidateRaises THEN {"validate_epoch", "AttributeError"} ELSE {"validate_epoch"}

\* the score of an epoch: the one the data gave before, if any
ScoreChoices(e) == IF e \in DOMAIN scores THEN {scores[e]} ELSE Scores

\* train(), lines 99-113: validate_epoch returns acc, the running best is
\* updated and the checkpoint saved; the loop variable advances
ValidateEpoch ==
    /\ pc = "validate" /\ ~ValidateRaises
    /\ \E acc \in ScoreChoices(epoch) :
         LET is_best == IsBest(acc, max_acc)
             new_max == IF is_best THEN acc ELSE max_acc
             new_best == IF is_best THEN epoch ELSE best_epoch
             fs == _save_checkpoint(
                     [latest |-> latest, best |-> best, history |-> history],
                     model, OptimState, <<new_max, new_best>>, NextEpoch(epoch), is_best)
         IN  /\ scores' = [e \in DOMAIN scores \cup {epoch} |->
                             IF e = epoch THEN acc ELSE scores[e]]
             /\ max_acc' = new_max
             /\ best_epoch' = new_best
             /\ latest' = fs.latest
             /\ best' = fs.best
             /\ history' = fs.history
             /\ log' = [log EXCEPT ![run] =
                          Append(@, [e |-> epoch, state |-> fs.latest,
                                     is_best |-> is_best, events |-> fs.events])]
    /\ metrics_clean' = FALSE
    /\ val_calls' = val_calls + 1
    /\ trace' = trace \o <<"validate_epoch", "compare", "save_checkpoint">>
    /\ epoch' = epoch + 1
    /\ pc' = "loop"
    /\ UNCHANGED <<ctx, run, start_epoch, init_max_acc_and_epoch, model, optimizer,
                   param_lr, checkpoint, resume_ret, snap, error>>

\* validate_epoch raises: always with no metric, else from the data or the model
ValidateEpochFails ==
    /\ pc = "validate"
    /\ val_calls' = val_calls + 1
    /\ \E updated \in BOOLEAN : metrics_clean' = (metrics_clean /\ ~updated)
    /\ \E err \in ValidateErrors : error' = err
    /\ trace' = Append(trace, "validate_epoch")
    /\ pc' = "failed"
    /\ UNCHANGED <<ctx, run, start_epoch, init_max_acc_and_epoch, model, optimizer,
                   param_lr, epoch, max_acc, best_epoch, checkpoint, resume_ret,
                   latest, best, history, scores, log, snap>>

\* mutant: the value _resume_from_checkpoint returned is not looked at
EvaluateValidates_Regardless(ret) == TRUE

\* evaluate(), line 117: the validation pass is guarded by the resume
EvaluateValidates(ret) == ret = "True"

\* evaluate(), lines 115-120
Evaluate ==
    /\ pc = "start" /\ ~is_training
    /\ IF ctx.resume # ""
       THEN \E file \in ResumeInputs, raises \in BOOLEAN :
              LET r == _resume_from_checkpoint(Self, file)
              IN  /\ start_epoch' = r.start_epoch
                  /\ init_max_acc_and_epoch' = r.init
                  /\ optimizer' = r.optimizer
                  /\ model' = r.model
                  /\ resume_ret' = [ret |-> r.ret, branch |-> r.branch]
                  /\ checkpoint' = file
                  /\ IF EvaluateValidates(r.ret)
                     THEN /\ val_calls' = val_calls + 1
                          /\ metrics_clean' = FALSE
                          /\ pc' = IF raises \/ ValidateRaises THEN "failed" ELSE "done"
                          /\ error' = IF raises THEN "validate_epoch"
                                       ELSE IF ValidateRaises THEN "AttributeError"
                                       ELSE error
                     ELSE /\ ~raises
                          /\ val_calls' = val_calls
                          /\ metrics_clean' = metrics_clean
                          /\ pc' = "done"
                          /\ error' = error
       ELSE /\ pc' = "done"
            /\ UNCHANGED <<start_epoch, init_max_acc_and_epoch, optimizer, model,
                           resume_ret, checkpoint, val_calls, metrics_clean, error>>
    /\ UNCHANGED <<ctx, run, param_lr, epoch, max_acc, best_epoch, latest, best,
                   history, scores, log, snap, trace>>

\* The checkpoint directory is copied at an epoch boundary of the first run:
\* what a run stopped after epoch k = epoch - 1 leaves behind.
Snapshot ==
    /\ pc = "loop" /\ run = 1 /\ snap = NoSnap /\ epoch > start_epoch
    /\ snap' = [taken |-> TRUE, latest |-> latest, best |-> best, history |-> history,
                k |-> epoch - 1, saves |-> Len(log[run])]
    /\ UNCHANGED <<ctx, pc, run, start_epoch, init_max_acc_and_epoch, model,
                   optimizer, param_lr, metrics_clean, epoch, max_acc, best_epoch,
                   checkpoint, resume_ret, latest, best, history, scores, log,
                   val_calls, error, trace>>

\* After the first run has gone through, a new process is started on the
\* copied directory with resume = its latest slot, to train on or to evaluate:
\* a new Trainer is constructed and run() called.
Restart ==
    /\ pc = "done" /\ is_training /\ run = 1 /\ snap # NoSnap
    /\ \E cmd \in {"train", "val"}, anew \in BOOLEAN :
         /\ (cmd = "val" => ~anew)
         /\ Construct([ctx EXCEPT !.cmd = cmd, !.resume = "latest", !.anew = anew])
    /\ run' = run + 1
    /\ latest' = snap.latest
    /\ best' = snap.best
    /\ history' = snap.history
    /\ UNCHANGED <<scores, log, snap>>

Next ==
    \/ TrainResume
    \/ LoopEnter
    \/ AdjustLearningRate
    \/ LoopExit
    \/ TrainEpoch
    \/ TrainEpochFails
    \/ ResetMetrics
    \/ ValidateEpoch
    \/ ValidateEpochFails
    \/ Evaluate
    \/ Snapshot
    \/ Restart

Spec == Init /\ [][Next]_vars

\* ------------------------------------------------------------------ claims
\* the step in which an epoch completes: validate_epoch has returned and the
\* checkpoint is saved
EpochCompletes == pc = "validate" /\ pc' = "loop"

\* the last _save_checkpoint call of the current run
LastSave == log[run][Len(log[run])]

\* the call wrote the file of this slot
WroteSlot(entry, slot) == \E i \in DOMAIN entry.events : entry.events[i].slot = slot

\* the validation scores of the epochs this run completed before epoch e
EarlierScores(e) == { scores[x] : x \in start_epoch..(e - 1) }

\* C1: every epoch e that completes writes the latest slot in that epoch, and
\* the slot then holds the record of that epoch, whose epoch field is e + 1.
C1_LatestHoldsNextEpoch ==
    [][EpochCompletes =>
         /\ WroteSlot(LastSave', "latest")
         /\ latest' = State(model, OptimState, <<max_acc', best_epoch'>>, epoch + 1)
         /\ latest'.epoch = epoch + 1]_vars

\* a fresh run has completed every epoch and latest holds the last one's record
C1_Witness ==
    /\ pc = "loop" /\ start_epoch = 0 /\ epoch = NumEpochs
    /\ Len(log[run]) = NumEpochs
    /\ latest # NoFile /\ latest.epoch = NumEpochs

\* C2 as stated: completing epoch e writes a history file exactly when
\* e mod track_intvl = 0.
C2_HistoryIffEpochMultiple ==
    [][EpochCompletes =>
         (WroteSlot(LastSave', "history") <=> epoch % ctx.track_intvl = 0)]_vars

\* C2 amended: completing epoch e writes a history file exactly when
\* (e + 1) mod track_intvl = 0, at the path of the stored epoch e + 1, and the
\* latest slot is written after every epoch.
C2_HistoryIffStoredEpochMultiple ==
    [][EpochCompletes =>
         /\ WroteSlot(LastSave', "history") <=> (epoch + 1) % ctx.track_intvl = 0
         /\ WroteSlot(LastSave', "history") =>
              /\ (epoch + 1) \in DOMAIN history'
              /\ history'[epoch + 1] = latest'
         /\ ~WroteSlot(LastSave', "history") => history' = history
         /\ WroteSlot(LastSave', "latest")]_vars

\* with an interval above 1, an epoch that is no multiple of it produced a
\* history file and another epoch produced none
C2_Witness ==
    /\ ctx.track_intvl > 1
    /\ \E i, j \in DOMAIN log[run] :
         /\ WroteSlot(log[run][i], "history")
         /\ log[run][i].e % ctx.track_intvl # 0
         /\ ~WroteSlot(log[run][j], "history")
         /\ WroteSlot(log[run][j], "latest")

\* C3 as stated: the best slot takes the content of latest exactly when the
\* epoch's score strictly exceeds the scores of the run's earlier epochs
\* (always, for the first epoch run), and is unchanged otherwise.
C3_BestFollowsRunScores ==
    [][EpochCompletes =>
         IF \A s \in EarlierScores(epoch) : scores'[epoch] > s
         THEN best' = latest'
         ELSE best' = best]_vars

\* C3 amended: the best slot takes the content of the just-written latest
\* exactly when the epoch's score strictly exceeds the run's initial best score
\* (0.0, or the one a resume restored) and the scores of the run's earlier
\* epochs; otherwise the best slot is unchanged.
C3_BestFollowsRunningBest ==
    [][EpochCompletes =>
         IF /\ scores'[epoch] > init_max_acc_and_epoch[1]
            /\ \A s \in EarlierScores(epoch) : scores'[epoch] > s
         THEN /\ WroteSlot(LastSave', "best")
              /\ best' = latest'
              /\ latest' = State(model, OptimState, <<scores'[epoch], epoch>>, epoch + 1)
         ELSE /\ ~WroteSlot(LastSave', "best")
              /\ best' = best]_vars

\* a run whose first epoch did not beat the initial best and left the best
\* slot alone, and whose later epoch did and rewrote it
C3_Witness ==
    /\ Len(log[run]) >= 2
    /\ ~log[run][1].is_best /\ ~WroteSlot(log[run][1], "best")
    /\ LastSave.is_best /\ WroteSlot(LastSave, "best")
    /\ best = latest

\* _resume_from_checkpoint has read a file, in train() or in evaluate()
ResumeReadFile == resume_ret.ret # "none" /\ checkpoint # NoFile

\* line 147: the parameter mapping of the file read
CkpDict == Get(checkpoint, "state_dict", checkpoint)

\* the live parameters the file holds with the live shape; the live model is
\* the freshly constructed one when the resume starts
SharedNames ==
    { k \in DOMAIN FreshModel \cap DOMAIN CkpDict : CkpDict[k].shape = FreshModel[k].shape }

\* the file names every live parameter and more, with the live shapes
StrictSuperset ==
    /\ DOMAIN FreshModel \subseteq DOMAIN CkpDict
    /\ DOMAIN FreshModel # DOMAIN CkpDict
    /\ SharedNames = DOMAIN FreshModel

\* every live parameter now holds the file's value
AllLiveLoaded == \A k \in DOMAIN FreshModel : k \in DOMAIN CkpDict /\ model[k] = CkpDict[k]

\* the fields a resume may restore are as __init__ left them
ProgressAtDefaults ==
    /\ start_epoch = 0
    /\ init_max_acc_and_epoch = <<0, 0>>
    /\ optimizer = IF is_training THEN "fresh" ELSE "none"

\* C4 as stated: a strict-superset checkpoint with the live shapes is a full
\* match (the branch of line 152 is not taken) and every live parameter is in
\* the update set.
C4_SupersetIsFullMatch ==
    (ResumeReadFile /\ StrictSuperset) =>
        (resume_ret.branch = "match" /\ AllLiveLoaded)

\* C4 amended: a strict-superset checkpoint with the live shapes takes the
\* mismatch branch (it has more entries than the live model), the update set
\* still contains every live parameter, and the resume succeeds in either mode
\* with all of them loaded and the progress counters left at their defaults.
C4_SupersetIsMismatchFullyLoaded ==
    (ResumeReadFile /\ StrictSuperset) =>
        /\ resume_ret = [ret |-> "True", branch |-> "mismatch"]
        /\ AllLiveLoaded
        /\ ProgressAtDefaults

\* a training run resumed from a record with one entry to spare and a stored
\* epoch that was not restored
C4_Witness ==
    /\ pc = "resumed" /\ StrictSuperset
    /\ "epoch" \in DOMAIN checkpoint /\ checkpoint.epoch > 0
    /\ ~ctx.anew
    /\ AllLiveLoaded

\* the file's name/shape set is the live model's
ExactCover == DOMAIN CkpDict = DOMAIN FreshModel /\ SharedNames = DOMAIN FreshModel

\* C5 as stated: in evaluation mode every checkpoint that is not a full match
\* fails the resume, and validate_epoch is not invoked.
C5_EvalRejectsEveryMismatch ==
    (~is_training /\ ResumeReadFile /\ ~ExactCover) =>
        (resume_ret.ret = "False" /\ val_calls = 0)

\* C5 amended: in evaluation mode every checkpoint that leaves out a live
\* parameter (by name or by shape, e.g. partial overlap) fails the resume, and
\* evaluate() then does not invoke validate_epoch nor touch the model.
C5_EvalRejectsIncompleteCover ==
    (~is_training /\ ResumeReadFile /\ SharedNames # DOMAIN FreshModel) =>
        /\ resume_ret = [ret |-> "False", branch |-> "mismatch"]
        /\ val_calls = 0
        /\ pc = "done"
        /\ model = FreshModel

\* evaluate() returned after a partially overlapping checkpoint
C5_Witness ==
    /\ ~is_training /\ pc = "done" /\ ResumeReadFile
    /\ SharedNames # {} /\ SharedNames # DOMAIN FreshModel
    /\ val_calls = 0

\* C6: a checkpoint that shares no parameter (name and shape) with the live
\* model gives an empty update set: the resume fails in training and in
\* evaluation mode, and the model, start_epoch, the initial best tuple and the
\* optimizer state are as they were.
C6_NoOverlapFailsUnchanged ==
    (ResumeReadFile /\ SharedNames = {}) =>
        /\ update_dict(FreshModel, CkpDict) = EmptyDict
        /\ resume_ret.ret = "False"
        /\ model = FreshModel
        /\ ProgressAtDefaults
        /\ val_calls = 0

\* train() came back from a resume of a non-empty checkpoint with no overlap
C6_Witness ==
    /\ is_training /\ pc = "resumed" /\ ResumeReadFile
    /\ DOMAIN CkpDict # {} /\ SharedNames = {}
    /\ resume_ret.ret = "False"

\* the record read stores its best score as a bare number, and an epoch
LegacyMaxAcc ==
    /\ ResumeReadFile /\ resume_ret.branch = "match"
    /\ "max_acc" \in DOMAIN checkpoint /\ IsNumber(checkpoint.max_acc)
    /\ "epoch" \in DOMAIN checkpoint

\* C7 as stated: a fully matching record with bare best score x and epoch E
\* sets the initial best tuple to (x, E).
C7_BareScoreAtStoredEpoch ==
    LegacyMaxAcc => init_max_acc_and_epoch = <<checkpoint.max_acc.val, checkpoint.epoch>>

\* C7 amended: when progress is restored (anew unset, or evaluation mode) a
\* fully matching record with bare best score x and epoch field E sets the
\* initial best tuple to (x, max(E - 1, 0)), the checkpoint's own epoch; with
\* anew set while training the tuple stays (0.0, 0).
C7_BareScoreAtCheckpointEpoch ==
    LegacyMaxAcc =>
        IF (~ctx.anew) \/ ~is_training
        THEN init_max_acc_and_epoch =
                <<checkpoint.max_acc.val, Max(checkpoint.epoch - 1, 0)>>
        ELSE init_max_acc_and_epoch = <<0, 0>>

\* a training run resumed from a legacy record of a later epoch
C7_Witness ==
    /\ pc = "resumed" /\ LegacyMaxAcc /\ ~ctx.anew
    /\ checkpoint.epoch > 1
    /\ init_max_acc_and_epoch = <<MaxScore, checkpoint.epoch - 1>>

\* the history paths the call wrote
HistoryPathsWritten(entry) ==
    { entry.events[i].path : i \in { n \in DOMAIN entry.events :
                                        entry.events[n].slot = "history" } }

\* C8: within a training run every history path is written at most once, the
\* file still holds what was written then, and the stored epoch that names
\* the path strictly increases from one epoch to the next.
C8_HistoryWrittenOnce ==
    \A i \in DOMAIN log[run] :
        /\ \A p \in HistoryPathsWritten(log[run][i]) :
             /\ p \in DOMAIN history
             /\ history[p] = log[run][i].state
             /\ p = log[run][i].state.epoch
             /\ \A j \in DOMAIN log[run] :
                  p \in HistoryPathsWritten(log[run][j]) => j = i
        /\ \A j \in DOMAIN log[run] :
             i < j => log[run][i].state.epoch < log[run][j].state.epoch

\* a run wrote two history files, and later epochs left the first in place
C8_Witness ==
    /\ Len(log[run]) = NumEpochs
    /\ HistoryPathsWritten(log[run][1]) # {}
    /\ HistoryPathsWritten(log[run][2]) # {}
    /\ Cardinality(DOMAIN history) >= 2
    /\ history[log[run][1].state.epoch] = log[run][1].state

\* the second Trainer trains on from the latest slot a run stopped after
\* epoch snap.k left behind, with anew unset
ResumedRun == run = 2 /\ is_training /\ ~ctx.anew /\ pc # "start"

\* what the claim compares of a _save_checkpoint call: the epoch run, the
\* stored epoch field, the best tuple and whether the best slot was written
Saved(entry) ==
    [e |-> entry.e, epoch |-> entry.state.epoch, max_acc |-> entry.state.max_acc,
     is_best |-> entry.is_best, best_written |-> WroteSlot(entry, "best")]

\* C9: a run resumed from the latest slot left after epoch k (full match,
\* anew unset) starts at epoch k + 1 with the best tuple the first run had
\* after epoch k, and with the same scores it makes, save for save, the
\* epoch fields, best tuples and best-slot updates of the uninterrupted run,
\* running exactly the epochs k + 1 .. num_epochs - 1.
C9_ExactResume ==
    ResumedRun =>
        /\ start_epoch = snap.k + 1
        /\ init_max_acc_and_epoch = log[1][snap.saves].state.max_acc.val
        /\ pc = "resumed" => resume_ret = [ret |-> "True", branch |-> "match"]
        /\ \A i \in DOMAIN log[2] :
             /\ snap.saves + i <= Len(log[1])
             /\ Saved(log[2][i]) = Saved(log[1][snap.saves + i])
             /\ log[2][i].e = snap.k + i
        /\ pc = "done" =>
             /\ Len(log[2]) = ctx.num_epochs - (snap.k + 1)
             /\ Len(log[2]) = Len(log[1]) - snap.saves
             /\ latest.epoch = ctx.num_epochs

\* a resumed run went through its epochs, renewing the best slot on the way,
\* after a first run that had a best score when it was stopped
C9_Witness ==
    /\ ResumedRun /\ pc = "done"
    /\ snap.k = 0
    /\ log[1][snap.saves].state.max_acc.val[1] > 0
    /\ Len(log[2]) = NumEpochs - 1
    /\ \E i \in DOMAIN log[2] : ~log[2][i].is_best

\* C10: in evaluation mode validate_epoch is invoked at most once, and only
\* after _resume_from_checkpoint returned True; with no checkpoint path, a
\* missing file or a failed resume there is no validation pass and the model
\* is not mutated.
C10_EvaluateOnlyAfterResume ==
    ~is_training =>
        /\ val_calls <= 1
        /\ val_calls = 1 => resume_ret.ret = "True"
        /\ (pc # "start" /\ resume_ret.ret # "True") =>
             /\ val_calls = 0
             /\ model = FreshModel
             /\ pc = "done"
        /\ (ctx.resume = "" /\ pc # "start") => resume_ret = NoResume
        /\ (resume_ret.ret # "none" /\ checkpoint = NoFile) => resume_ret.ret = "False"

\* evaluate() validated once after a successful resume
C10_Witness ==
    /\ ~is_training /\ pc = "done"
    /\ resume_ret.ret = "True" /\ val_calls = 1


\* ------------------------------------------------- the learning rate alone
\* _adjust_learning_rate is a function of the epoch and of the settings: it is
\* applied once at the loop head of a Trainer resumed at any epoch, under
\* settings wider than the ones whole runs are explored with.
MaxLrEpochs == 21
MaxLrStep == 10

LrConfigs ==
    [cmd : {"train"}, resume : {"ext"}, num_epochs : 1..MaxLrEpochs,
     track_intvl : {1}, lr_mode : {"step", "poly", "const", "cosine"},
     step : 1..MaxLrStep, anew : {FALSE}, load_optim : {FALSE}, save_optim : {FALSE},
     metrics : {1}]

\* the loop head (line 85) of a Trainer that resumed from a full-match record
\* of an earlier run stopped after epoch e - 1
InitLr ==
    /\ ctx \in LrConfigs
    /\ \E e \in 0..(ctx.num_epochs - 1) :
         LET built == [start_epoch |-> 0, init |-> <<0, 0>>, optimizer |-> "fresh",
                       model |-> FreshModel, ret |-> "none", branch |-> "none"]
             file == Record([k \in DOMAIN FreshModel |-> Tensor(1, "ext")],
                            Present(e), Absent, Absent)
             r == _resume_from_checkpoint(built, file)
         IN  /\ start_epoch = r.start_epoch
             /\ init_max_acc_and_epoch = r.init
             /\ model = r.model
             /\ optimizer = r.optimizer
             /\ epoch = r.start_epoch
             /\ max_acc = r.init[1]
             /\ best_epoch = r.init[2]
    /\ pc = "loop"
    /\ run = 1
    /\ param_lr = BaseLr
    /\ metrics_clean = TRUE
    /\ checkpoint = NoFile
    /\ resume_ret = NoResume
    /\ latest = NoFile
    /\ best = NoFile
    /\ history = EmptyDict
    /\ scores = EmptyDict
    /\ log = [r \in {1, 2} |-> <<>>]
    /\ val_calls = 0
    /\ error = "none"
    /\ trace = <<>>
    /\ snap = NoSnap

NextLr == AdjustLearningRate

SpecLr == InitLr /\ [][NextLr]_vars

\* a rate halved once, and n times
Halve(lr) == [lr EXCEPT !.den = 2 * @]

RECURSIVE HalvedTimes(_, _)
HalvedTimes(lr, n) == IF n = 0 THEN lr ELSE Halve(HalvedTimes(lr, n - 1))

\* the number of whole blocks of ctx.step epochs before epoch e
BlocksBefore(e) == CHOOSE k \in 0..e : k * ctx.step <= e /\ e < (k + 1) * ctx.step

\* C11: under the step policy the rate given to the optimizer for an epoch is
\* the base rate halved once per whole block of `step` epochs before it (so
\* with step = 10 it is the base rate at epoch 0, half of it at epoch 10, a
\* quarter at epoch 20, and the same all through a block); under the const
\* policy it is the base rate at every epoch.
C11_StepHalvesConstKeeps ==
    pc = "train" =>
      /\ ctx.lr_mode = "step" =>
           /\ param_lr = HalvedTimes(BaseLr, BlocksBefore(epoch))
           /\ (ctx.step = 10 /\ epoch \in 0..9 => param_lr = BaseLr)
           /\ (ctx.step = 10 /\ epoch \in 10..19 => param_lr = Halve(BaseLr))
           /\ (ctx.step = 10 /\ epoch = 20 => param_lr = Halve(Halve(BaseLr)))
      /\ ctx.lr_mode = "const" => param_lr = BaseLr

\* the step policy with step = 10 has reached its second halving at epoch 20
C11_Witness ==
    /\ pc = "train" /\ ctx.lr_mode = "step" /\ ctx.step = 10 /\ epoch = 20
    /\ param_lr = [num |-> 1, den |-> 4, pow |-> 10]

\* ---------------------------------------------------------------- C12
\* a training run under a learning-rate mode _adjust_learning_rate does not know
UnknownModeRun == ctx.cmd = "train" /\ ctx.lr_mode \notin {"step", "poly", "const"}

\* C12 as stated: a training run with an unknown learning-rate mode always
\* fails, so it never ends normally.
C12_UnknownModeAlwaysFails == UnknownModeRun => pc # "done"

\* C12, amended: a training run with an unknown learning-rate mode fails with
\* the ValueError of _adjust_learning_rate at the head of its first epoch, if
\* the resume left it an epoch to run (start_epoch < num_epochs) - a run
\* resumed at start_epoch >= num_epochs never computes a rate and ends
\* normally, and a resume that raises ends the run with its own error; in every
\* case no train_epoch or validate_epoch call is made and no slot is written.
C12_UnknownModeFailsAtFirstEpoch ==
    [][UnknownModeRun =>
         /\ pc' \in {"start", "resumed", "loop", "failed", "done"}
         /\ trace' = <<>> /\ val_calls' = 0
         /\ \A k \in DOMAIN model' : model'[k].val # "trained"
         /\ optimizer' # "stepped"
         /\ latest' = latest /\ best' = best /\ history' = history /\ log' = log
         /\ (pc' = "failed" =>
               \/ pc = "start" /\ error' = "KeyError"
               \/ pc = "loop" /\ error' = "ValueError" /\ epoch = start_epoch)
         /\ (pc = "loop" =>
               IF start_epoch < ctx.num_epochs
               THEN pc' = "failed" /\ error' = "ValueError"
               ELSE pc' = "done" /\ error' = "none")]_vars

\* the mode is found unknown at the first epoch of a run that resumed past
\* epoch 0, with the parameters of the checkpoint already loaded
C12_Witness ==
    /\ UnknownModeRun /\ pc = "failed" /\ error = "ValueError"
    /\ start_epoch > 0 /\ epoch = start_epoch
    /\ model # FreshModel
    /\ latest = NoFile /\ val_calls = 0

\* ---------------------------------------------------------------- C13
\* C13: an epoch whose validation score equals the running best leaves the
\* running best tuple as it was and does not write the best slot; the tuple
\* changes and the best slot is written only for a strictly greater score.
C13_TieKeepsBest ==
    [][EpochCompletes =>
         /\ (scores'[epoch] = max_acc =>
               /\ max_acc' = max_acc /\ best_epoch' = best_epoch
               /\ LastSave'.state.max_acc = Pair(max_acc, best_epoch)
               /\ ~LastSave'.is_best
               /\ ~WroteSlot(LastSave', "best")
               /\ best' = best)
         /\ ((<<max_acc', best_epoch'>> # <<max_acc, best_epoch>>
                \/ WroteSlot(LastSave', "best")) => scores'[epoch] > max_acc)]_vars

\* a later epoch has tied with the non-zero best score of an earlier one: the
\* best slot still holds the earlier epoch's record
C13_Witness ==
    /\ pc = "loop" /\ Len(log[run]) >= 2
    /\ log[run][1].is_best /\ scores[log[run][1].e] > 0
    /\ scores[LastSave.e] = scores[log[run][1].e]
    /\ ~LastSave.is_best
    /\ best_epoch = log[run][1].e
    /\ best = log[run][1].state /\ best # latest

\* ---------------------------------------------------------------- C14
\* the exceptions train_epoch and validate_epoch end an epoch of train() with
EpochErrors == {"train_epoch", "validate_epoch", "AttributeError"}

\* C14: when train_epoch or validate_epoch raises in epoch e of train(), the
\* run ends there: the Trainer takes no further step (epoch e is not retried,
\* no later epoch runs), no slot is written for epoch e, and if this run
\* completed an epoch before, the latest slot still holds the record written
\* after epoch e - 1, whose epoch field is e.
C14_FailedEpochEndsRun ==
    [][/\ ~(is_training /\ error \in EpochErrors)
       /\ (is_training /\ error' \in EpochErrors) =>
            /\ pc \in {"train", "validate"} /\ pc' = "failed"
            /\ epoch' = epoch
            /\ latest' = latest /\ best' = best /\ history' = history
            /\ log' = log
            /\ \A i \in DOMAIN log[run] : log[run][i].e < epoch
            /\ Len(log[run]) = epoch - start_epoch
            /\ (epoch > start_epoch =>
                  latest' = LastSave.state /\ latest'.epoch = epoch)]_vars

\* validate_epoch raised in an epoch that follows a completed one: the latest
\* slot is the one of the epoch before
C14_Witness ==
    /\ is_training /\ pc = "failed" /\ error = "validate_epoch"
    /\ epoch > start_epoch
    /\ trace = <<"adjust_learning_rate", "train_epoch", "reset", "validate_epoch">>
    /\ latest = LastSave.state /\ latest.epoch = epoch /\ LastSave.e = epoch - 1

\* ---------------------------------------------------------------- C15
\* a call of _resume_from_checkpoint read a file and returned True
ResumeSucceeded == ResumeReadFile /\ resume_ret.ret = "True"

\* the best tuple the file read stands for: its 'max_acc' if that is a tuple,
\* else its bare score (0 if it has none) at the epoch before its 'epoch'
RecordBest ==
    LET at == Max(Get(checkpoint, "epoch", 0) - 1, 0)
    IN  IF "max_acc" \notin DOMAIN checkpoint THEN <<0, at>>
        ELSE IF checkpoint.max_acc.kind = "tuple" THEN checkpoint.max_acc.val
        ELSE <<checkpoint.max_acc.val, at>>

\* start_epoch and the initial best tuple are the ones of the file read
ProgressRestored ==
    /\ start_epoch = Get(checkpoint, "epoch", 0)
    /\ init_max_acc_and_epoch = RecordBest

\* the optimizer is as __init__ built it
OptimizerUntouched == optimizer = IF is_training THEN "fresh" ELSE "none"

\* the parameters the file shares with the live model hold its values, the
\* others the values they had
MatchingApplied ==
    /\ DOMAIN model = DOMAIN FreshModel
    /\ \A k \in DOMAIN model :
         model[k] = IF k \in SharedNames THEN CkpDict[k] ELSE FreshModel[k]

\* C15 as stated: a successful resume restores start_epoch and the best tuple
\* exactly when (the checkpoint is a full match, or the run evaluates) and not
\* (anew while training); otherwise both stay at their defaults, the optimizer
\* is not loaded and the matching parameters are applied.
C15_RestoresOnMatchOrEval ==
    ResumeSucceeded =>
        IF (ExactCover \/ ~is_training) /\ ~(ctx.anew /\ is_training)
        THEN ProgressRestored /\ MatchingApplied
        ELSE /\ start_epoch = 0 /\ init_max_acc_and_epoch = <<0, 0>>
             /\ OptimizerUntouched /\ MatchingApplied

\* C15, amended: a successful resume restores start_epoch and the best tuple
\* exactly when the checkpoint is a full match and not (anew while training);
\* a checkpoint that is not a full match restores neither, in evaluation mode
\* as in training mode.  The optimizer state is loaded only when they are
\* restored, load_optim is set and the run trains.  In every successful
\* resume the matching parameters are applied.
C15_RestoresOnFullMatchOnly ==
    ResumeSucceeded =>
        /\ MatchingApplied
        /\ IF ExactCover /\ ~(ctx.anew /\ is_training)
           THEN /\ ProgressRestored
                /\ IF ctx.load_optim /\ is_training
                   THEN optimizer = checkpoint.optimizer
                   ELSE OptimizerUntouched
           ELSE /\ start_epoch = 0 /\ init_max_acc_and_epoch = <<0, 0>>
                /\ OptimizerUntouched

\* an evaluation run resumed from a strict superset that stores a later epoch
\* and a best score: the parameters are loaded, the progress is not
C15_Witness ==
    /\ ~is_training /\ ResumeSucceeded /\ StrictSuperset
    /\ "epoch" \in DOMAIN checkpoint /\ checkpoint.epoch > 0
    /\ "max_acc" \in DOMAIN checkpoint
    /\ start_epoch = 0 /\ init_max_acc_and_epoch = <<0, 0>>
    /\ AllLiveLoaded

\* ---------------------------------------------------------------- C16
\* a training run whose resume found no file at the configured path
MissingFileRun ==
    /\ ctx.cmd = "train" /\ ctx.resume # ""
    /\ resume_ret.ret # "none" /\ checkpoint = NoFile

\* C16: in training mode with a resume path at which there is no file,
\* _resume_from_checkpoint returns False and leaves start_epoch, the initial
\* best tuple, the model and the optimizer as constructed, and train() goes
\* on: it enters the loop at epoch 0 with these and runs the epochs
\* 0 .. num_epochs - 1 in order, ending only with the loop or with an error
\* raised inside an epoch.
C16_MissingFileTrainsFromScratch ==
    MissingFileRun =>
        /\ resume_ret.ret = "False"
        /\ start_epoch = 0 /\ init_max_acc_and_epoch = <<0, 0>>
        /\ pc # "start"
        /\ (pc = "resumed" \/ (pc = "loop" /\ epoch = 0)) =>
              /\ model = FreshModel /\ optimizer = "fresh" /\ param_lr = BaseLr
              /\ error = "none" /\ log[run] = <<>>
        /\ (pc = "loop" /\ epoch = 0) => (max_acc = 0 /\ best_epoch = 0)
        /\ (pc = "failed" => error \in EpochErrors \cup {"ValueError"})
        /\ (pc \notin {"resumed", "failed"} => Len(log[run]) = epoch)
        /\ \A i \in DOMAIN log[run] : log[run][i].e = i - 1
        /\ (pc = "done" => epoch = ctx.num_epochs)

\* a run whose checkpoint file was missing has gone through all its epochs
C16_Witness ==
    /\ MissingFileRun /\ pc = "done"
    /\ Len(log[run]) = ctx.num_epochs /\ ctx.num_epochs > 0
    /\ log[run][1].e = 0 /\ LastSave.e = ctx.num_epochs - 1

\* ---------------------------------------------------------------- C17
\* the steps of one epoch of train(), in the order of lines 86-113
EpochSteps ==
    <<"adjust_learning_rate", "train_epoch", "reset", "validate_epoch", "compare",
      "save_checkpoint">>

\* C17: in every epoch of train() the steps taken are, each once and in this
\* order, the rate set on the optimizer, train_epoch, the reset of the
\* metrics, validate_epoch, the comparison with the running best, the
\* checkpoint write - all six in an epoch that completes, the first ones up to
\* the failing call in one that raises.  train_epoch runs with the rate of its
\* own epoch in the optimizer, validate_epoch starts from reset metrics, and
\* what is compared and saved is the score of this epoch's validation.
C17_EpochStepsInOrder ==
    [][/\ Len(trace') <= Len(EpochSteps)
       /\ trace' = SubSeq(EpochSteps, 1, Len(trace'))
       /\ (EpochCompletes => trace' = EpochSteps)
       /\ (trace' # trace /\ trace' # <<>> =>
             \/ trace' = <<"adjust_learning_rate">> /\ pc = "loop"
             \/ Len(trace') > Len(trace) /\ trace = SubSeq(trace', 1, Len(trace)))
       /\ (trace = <<"adjust_learning_rate">> /\ Len(trace') = 2 =>
             /\ param_lr = LearningRate(epoch)
             /\ (epoch > start_epoch /\ ctx.lr_mode = "poly" =>
                   param_lr # LearningRate(epoch - 1)))
       /\ (Len(trace) = 3 /\ Len(trace') > 3 => metrics_clean)
       /\ (EpochCompletes =>
             /\ LastSave'.e = epoch /\ Len(log'[run]) = Len(log[run]) + 1
             /\ max_acc' = Max(max_acc, scores'[epoch])
             /\ LastSave'.state.max_acc = Pair(max_acc', best_epoch'))]_vars

\* a second epoch has completed with all six steps, under a rate that
\* differs from the one of the epoch before
C17_Witness ==
    /\ pc = "loop" /\ epoch >= start_epoch + 2
    /\ trace = EpochSteps
    /\ param_lr = LearningRate(epoch - 1) /\ param_lr # LearningRate(epoch - 2)
    /\ ~metrics_clean
    /\ LastSave.e = epoch - 1

\* ---------------------------------------------------------------- C18
\* the file read shares some of the live parameters, not all of them
PartialMatch == SharedNames # {} /\ SharedNames # DOMAIN FreshModel

\* C18: after a partial-match resume in training mode the model has the
\* parameters it had, those of the update set (same name and same shape in
\* the checkpoint) holding the checkpoint's values and every other one the
\* value it had before.
C18_PartialLoadsOnlyUpdateSet ==
    (is_training /\ pc = "resumed" /\ ResumeReadFile /\ PartialMatch) =>
        /\ resume_ret.ret = "True"
        /\ DOMAIN model = DOMAIN FreshModel
        /\ \A k \in SharedNames : model[k] = CkpDict[k] /\ model[k] # FreshModel[k]
        /\ \A k \in DOMAIN FreshModel \ SharedNames : model[k] = FreshModel[k]

\* a training run resumed from a checkpoint that has one live parameter under
\* the wrong shape, and a parameter the model does not have
C18_Witness ==
    /\ is_training /\ pc = "resumed" /\ ResumeReadFile /\ PartialMatch
    /\ \E k \in DOMAIN FreshModel \cap DOMAIN CkpDict : k \notin SharedNames
    /\ DOMAIN CkpDict \ DOMAIN FreshModel # {}
    /\ \E k \in SharedNames : model[k] = CkpDict[k]
    /\ \E k \in DOMAIN model : model[k] = FreshModel[k]

\* ---------------------------------------------------------------- C19
\* C19: validate_epoch yields a score under every configuration of metrics, an
\* empty metrics list included (the score then comes from the validation
\* loss): no call of it ends in the AttributeError of its return expression,
\* and in training the comparison and the checkpoint write follow it.
C19_ValidateAlwaysScores ==
    /\ error # "AttributeError"
    /\ (is_training /\ pc = "loop" /\ val_calls > 0 =>
          Len(log[run]) > 0 /\ LastSave.e \in DOMAIN scores)
    /\ (ctx.metrics = 0 /\ val_calls > 0 => error \in {"none", "validate_epoch"})

\* ---------------------------------------------------------------- C20
\* the best score a record holds
BestScoreOf(record) == record.max_acc.val[1]

\* C20: between the epochs of a training run, once this run has written the
\* best slot, the record in it has best epoch = its epoch field - 1 and the
\* best score of the record in the latest slot; the best scores of the
\* successive latest records never decrease, and each is at least every
\* validation score the run has seen up to its epoch.
C20_BestSlotAgreesWithLatest ==
    is_training =>
        /\ (\E i \in DOMAIN log[run] : WroteSlot(log[run][i], "best")) =>
              /\ best.max_acc.val[2] = best.epoch - 1
              /\ BestScoreOf(best) = BestScoreOf(latest)
        /\ \A i, j \in DOMAIN log[run] :
              i <= j =>
                /\ BestScoreOf(log[run][i].state) <= BestScoreOf(log[run][j].state)
                /\ scores[log[run][i].e] <= BestScoreOf(log[run][j].state)
        /\ (log[run] # <<>> => latest = LastSave.state)

\* the run wrote the best slot in an earlier epoch and has saved a lower
\* score since: the two slots differ and agree on the best score
C20_Witness ==
    /\ is_training /\ Len(log[run]) >= 2
    /\ \E i \in DOMAIN log[run] : WroteSlot(log[run][i], "best") /\ i < Len(log[run])
    /\ ~WroteSlot(LastSave, "best")
    /\ scores[LastSave.e] < BestScoreOf(latest)
    /\ best.epoch < latest.epoch
    /\ BestScoreOf(best) = BestScoreOf(latest)

====
